---- MODULE Spec2Model ----
(***************************************************************************)
(* Model of the product HTTP handler layer (package shop).                 *)
(*                                                                         *)
(* Every request is served on its own goroutine.  A handler runs in two    *)
(* steps separated by the only blocking point of the layer, the delegated  *)
(* service call: <Handler>Begin reads and decodes the request and issues   *)
(* the call (or answers 400), <Handler>End receives the service's outcome  *)
(* and writes the response.  Steps of different requests interleave.       *)
(* The service is opaque: its outcome is a nondeterministic choice.        *)
(***************************************************************************)
EXTENDS Integers, Sequences, FiniteSets, TLC

\* Number of requests that may be in flight together.
MaxReqs == 2

Reqs == 1..MaxReqs

VARIABLES
    handler,    \* the Handler built by NewHandler: service, logger, decoder
    pc,         \* pc[r]: "idle" (not arrived), "svc" (service call in flight), "done"
    req,        \* req[r]: the request as received (operation, route vars, body, query)
    calls,      \* calls[r]: the service calls made on behalf of request r, in order
    result,     \* result[r]: what the service returned to request r
    resp,       \* resp[r]: the http.ResponseWriter of request r
    log         \* the records written to the shared logger, in order

vars == <<handler, pc, req, calls, result, resp, log>>

----------------------------------------------------------------------------
\* net/http status codes used by the handlers.
StatusOK == 200
StatusCreated == 201
StatusNoContent == 204
StatusBadRequest == 400
StatusNotFound == 404
StatusInternalServerError == 500

----------------------------------------------------------------------------
\* Errors.  An error value is its Unwrap chain, outermost first; the nil
\* error is the empty chain.  Each link is the identity of one error value.
Nil == <<>>

ErrNotFound == "ErrNotFound"

\* Text returned by Error() for each error identity.
ErrorText(e) ==
    CASE e = "ErrNotFound" -> "shop: not found"
      [] e = "lookalike"   -> "shop: not found"
      [] e = "wrap"        -> "get product: shop: not found"
      [] OTHER             -> e

\* errors.Is compared by message text instead of identity.
RECURSIVE ErrorsIs_ByMessage(_, _)
ErrorsIs_ByMessage(err, target) ==
    IF err = Nil THEN FALSE
    ELSE ErrorText(Head(err)) = ErrorText(target)
         \/ ErrorsIs_ByMessage(Tail(err), target)

\* errors.Is replaced by a direct comparison (err == target), no unwrapping.
ErrorsIs_NoUnwrap(err, target) ==
    err # Nil /\ Head(err) = target

\* errors.Is: walks the Unwrap chain comparing identities.
RECURSIVE ErrorsIs(_, _)
ErrorsIs(err, target) ==
    IF err = Nil THEN FALSE
    ELSE Head(err) = target \/ ErrorsIs(Tail(err), target)

\* Failures a service implementation may report.
ServiceErrors ==
    { <<"ErrNotFound">>,            \* the sentinel itself
      <<"wrap", "ErrNotFound">>,    \* fmt.Errorf("...: %w", ErrNotFound)
      <<"db down">>,                \* an unrelated failure
      <<"lookalike">> }             \* errors.New("shop: not found") made elsewhere

----------------------------------------------------------------------------
\* Resource model.
ZeroProduct == [ID |-> "", Name |-> "", Description |-> "", Price |-> 0]

\* Entities a service may hand back.
P42 == [ID |-> "42", Name |-> "X", Description |-> "", Price |-> 0]
P7  == [ID |-> "7", Name |-> "Y", Description |-> "d", Price |-> 5]
Products == {P42, P7}

\* ProductFilter and ProductUpdate are empty structs: no fields.
ProductFilterFields == {}
ProductUpdateFields == {}
ZeroFilter == [k \in ProductFilterFields |-> ""]
ZeroUpdate == [k \in ProductUpdateFields |-> ""]

\* The Product of the two-operation layer is an empty struct as well.
EmptyProduct == [k \in {} |-> ""]

----------------------------------------------------------------------------
\* JSON values: objects carry a record of member values.
JStr(s) == [t |-> "str", s |-> s]
JNum(n) == [t |-> "num", n |-> n]
JNull == [t |-> "null"]
JObj(m) == [t |-> "obj", m |-> m]
JArr(a) == [t |-> "arr", a |-> a]

\* A request body: the text either holds a JSON value (possibly followed by
\* more bytes, which Decoder.Decode does not read) or is not JSON at all.
Body(syntax, val) == [syntax |-> syntax, val |-> val]

BodyNameOnly == Body("ok", JObj([name |-> JStr("X")]))
BodyWithID   == Body("ok", JObj([id |-> JStr("7"), name |-> JStr("X"), colour |-> JStr("red")]))
BodyBadType  == Body("ok", JObj([name |-> JStr("X"), price |-> JStr("cheap")]))
BodyArray    == Body("ok", JArr(<<>>))
BodyBroken   == Body("bad", JNull)
BodyEmpty    == Body("empty", JNull)

CreateBodies == {BodyNameOnly, BodyWithID, BodyBadType, BodyBroken}
UpdateBodies == {BodyNameOnly, BodyArray, BodyEmpty}

\* JSON type each Product member must have.
ProductJSONType ==
    [id |-> "str", name |-> "str", description |-> "str", price |-> "num"]

\* Reading the first JSON value of the body.
ReadValue(body) ==
    CASE body.syntax = "bad"   -> [err |-> <<"json.SyntaxError">>, val |-> JNull]
      [] body.syntax = "empty" -> [err |-> <<"io.EOF">>, val |-> JNull]
      [] OTHER                 -> [err |-> Nil, val |-> body.val]

\* Value of member k of object m for a string field (absent or null: zero value).
StrMember(m, k) ==
    IF k \in DOMAIN m /\ m[k].t = "str" THEN m[k].s ELSE ""

NumMember(m, k) ==
    IF k \in DOMAIN m /\ m[k].t = "num" THEN m[k].n ELSE 0

\* json.NewDecoder(r.Body).Decode(&p) for p of type Product.
JsonDecodeProduct(body) ==
    LET rd == ReadValue(body) IN
    IF rd.err # Nil THEN [err |-> rd.err, val |-> ZeroProduct]
    ELSE IF rd.val.t = "null" THEN [err |-> Nil, val |-> ZeroProduct]
    ELSE IF rd.val.t # "obj" THEN [err |-> <<"json.UnmarshalTypeError">>, val |-> ZeroProduct]
    ELSE LET m == rd.val.m
             mismatch == { k \in DOMAIN m \cap DOMAIN ProductJSONType :
                             m[k].t # "null" /\ m[k].t # ProductJSONType[k] }
             p == [ID |-> StrMember(m, "id"), Name |-> StrMember(m, "name"),
                   Description |-> StrMember(m, "description"),
                   Price |-> NumMember(m, "price")]
         IN [err |-> IF mismatch = {} THEN Nil ELSE <<"json.UnmarshalTypeError">>,
             val |-> p]

\* json.NewDecoder(r.Body).Decode(&upd) for upd of type ProductUpdate.
JsonDecodeUpdate(body) ==
    LET rd == ReadValue(body) IN
    IF rd.err # Nil THEN [err |-> rd.err, val |-> ZeroUpdate]
    ELSE IF rd.val.t \in {"null", "obj"} THEN [err |-> Nil, val |-> ZeroUpdate]
    ELSE [err |-> <<"json.UnmarshalTypeError">>, val |-> ZeroUpdate]

\* json encoding of a Product: every member is omitempty.
MarshalProduct(p) ==
    LET present == {k \in {"id", "name", "description", "price"} :
                      CASE k = "id" -> p.ID # ""
                        [] k = "name" -> p.Name # ""
                        [] k = "description" -> p.Description # ""
                        [] OTHER -> p.Price # 0}
    IN JObj([k \in present |->
                CASE k = "id" -> JStr(p.ID)
                  [] k = "name" -> JStr(p.Name)
                  [] k = "description" -> JStr(p.Description)
                  [] OTHER -> JNum(p.Price)])

\* json encoding of the empty-struct Product.
MarshalEmptyProduct(p) == JObj(EmptyProduct)

\* json encoding of a []Product: a nil slice encodes as null.
MarshalProducts(ps) ==
    IF ps.isNil THEN JNull
    ELSE JArr([i \in 1..Len(ps.items) |-> MarshalProduct(ps.items[i])])

\* json encoding of a []Product of empty-struct Products.
MarshalEmptyProducts(ps) ==
    IF ps.isNil THEN JNull
    ELSE JArr([i \in 1..Len(ps.items) |-> MarshalEmptyProduct(ps.items[i])])

----------------------------------------------------------------------------
\* gorilla/schema decoder.
NewDecoder == [ignoreUnknownKeys |-> FALSE]

IgnoreUnknownKeys(d, i) == [d EXCEPT !.ignoreUnknownKeys = i]

\* URL queries: key -> value.
Queries == { [k \in {} |-> ""], [name |-> "X", limit |-> "abc"] }

\* decoder.Decode(&f, r.URL.Query()) for f of type ProductFilter: keys that
\* name no field are an error unless the decoder ignores unknown keys.
SchemaDecode(d, query) ==
    LET unknown == DOMAIN query \ ProductFilterFields IN
    IF unknown # {} /\ ~d.ignoreUnknownKeys
    THEN [err |-> <<"schema.MultiError">>, val |-> ZeroFilter]
    ELSE [err |-> Nil, val |-> [k \in ProductFilterFields \cap DOMAIN query |-> query[k]]]

----------------------------------------------------------------------------
\* http.ResponseWriter.
HeaderNames == {"Location", "Content-Type"}
NoHeader == [h \in HeaderNames |-> ""]

NewWriter ==
    [header |-> NoHeader,       \* w.Header(), "" for a key not set
     wroteHeader |-> FALSE,
     status |-> 0,
     sent |-> NoHeader,         \* the headers as committed with the status line
     body |-> <<>>,             \* encoded values written
     writeHeaderCalls |-> 0]

\* w.Header().Set(k, v)
HeaderSet(w, k, v) == [w EXCEPT !.header[k] = v]

\* w.WriteHeader(code): the first call commits status and headers; later
\* calls are superfluous and change nothing on the wire.
WriteHeader(w, code) ==
    IF w.wroteHeader
    THEN [w EXCEPT !.writeHeaderCalls = @ + 1]
    ELSE [w EXCEPT !.wroteHeader = TRUE, !.status = code, !.sent = w.header,
                   !.writeHeaderCalls = @ + 1]

\* json.NewEncoder(w).Encode(v): a write before WriteHeader commits 200.
Encode(w, data) ==
    LET w1 == IF w.wroteHeader THEN w
              ELSE [w EXCEPT !.wroteHeader = TRUE, !.status = StatusOK, !.sent = w.header]
    IN [w1 EXCEPT !.body = Append(@, data)]

\* h.logger.Info(msg, attrs...); r records which request's goroutine logged.
LogInfo(l, r, msg, attrs) ==
    Append(l, [req |-> r, level |-> "INFO", msg |-> msg, attrs |-> attrs])

----------------------------------------------------------------------------
\* Route variables of a request: mux.Vars(r).  A handler invoked without a
\* matched {productID} segment sees no variables.
RouteVars == { [k \in {} |-> ""], [productID |-> "42"] }

idFromRequest(v) ==
    IF "productID" \in DOMAIN v THEN v["productID"] ELSE ""

\* The two handler layers of the repository.
Full == "shop.go"
Legacy == "part_000"

\* NewHandler: the decoder of ListProducts is built once, here.
NewHandler(s, l) ==
    [service |-> s, logger |-> l,
     decoder |-> IgnoreUnknownKeys(NewDecoder, TRUE)]

NoRequest == [op |-> "none"]
NoResult == [err |-> Nil, returned |-> FALSE]

Request(op, layer, v, body, query) ==
    [op |-> op, layer |-> layer, vars |-> v, body |-> body, query |-> query]

NoBody == Body("empty", JNull)
NoQuery == [k \in {} |-> ""]
NoVars == [k \in {} |-> ""]

Init ==
    /\ handler = NewHandler("service", "logger")
    /\ pc = [r \in Reqs |-> "idle"]
    /\ req = [r \in Reqs |-> NoRequest]
    /\ calls = [r \in Reqs |-> <<>>]
    /\ result = [r \in Reqs |-> NoResult]
    /\ resp = [r \in Reqs |-> NewWriter]
    /\ log = <<>>

----------------------------------------------------------------------------
\* What a service implementation may return, per operation.
ProductOutcomes ==
    {[err |-> e, val |-> ZeroProduct] : e \in ServiceErrors}
        \cup {[err |-> Nil, val |-> p] : p \in Products}

EmptyProductOutcomes ==
    {[err |-> e, val |-> EmptyProduct] : e \in ServiceErrors}
        \cup {[err |-> Nil, val |-> EmptyProduct]}

NilSlice == [isNil |-> TRUE, items |-> <<>>]
Slice(items) == [isNil |-> FALSE, items |-> items]

ListOutcomes ==
    {[err |-> e, val |-> NilSlice] : e \in ServiceErrors}
        \cup {[err |-> Nil, val |-> ps] : ps \in {NilSlice, Slice(<<P42, P7>>)}}

EmptyListOutcomes ==
    {[err |-> e, val |-> NilSlice] : e \in ServiceErrors}
        \cup {[err |-> Nil, val |-> ps] : ps \in {NilSlice, Slice(<<EmptyProduct>>)}}

DeleteOutcomes ==
    {[err |-> e, val |-> "none"] : e \in ServiceErrors \cup {Nil}}

\* Request slots are numbered in order of arrival.
Arrives(r) ==
    /\ pc[r] = "idle"
    /\ IF r = 1 THEN TRUE ELSE pc[r - 1] # "idle"

Returned(out) == [err |-> out.err, returned |-> TRUE, val |-> out.val]

Call(method, id, arg) == [method |-> method, id |-> id, arg |-> arg]

----------------------------------------------------------------------------
\* POST /products

\* Create that ignores the decode error and goes on to the service.
CreateProductBegin_NoDecodeCheck(r, body) ==
    LET d == JsonDecodeProduct(body) IN
    /\ Arrives(r)
    /\ req' = [req EXCEPT ![r] = Request("CreateProduct", Full, NoVars, body, NoQuery)]
    /\ calls' = [calls EXCEPT ![r] = Append(@, Call("CreateProduct", "", d.val))]
    /\ pc' = [pc EXCEPT ![r] = "svc"]
    /\ UNCHANGED <<handler, result, resp, log>>

CreateProductBegin(r, body) ==
    LET d == JsonDecodeProduct(body) IN
    /\ Arrives(r)
    /\ req' = [req EXCEPT ![r] = Request("CreateProduct", Full, NoVars, body, NoQuery)]
    /\ IF d.err # Nil
       THEN /\ resp' = [resp EXCEPT ![r] = WriteHeader(@, StatusBadRequest)]
            /\ pc' = [pc EXCEPT ![r] = "done"]
            /\ UNCHANGED <<calls, log>>
       ELSE /\ calls' = [calls EXCEPT ![r] = Append(@, Call("CreateProduct", "", d.val))]
            /\ pc' = [pc EXCEPT ![r] = "svc"]
            /\ UNCHANGED <<resp, log>>
    /\ UNCHANGED <<handler, result>>

\* Create that builds the Location from the entity the client sent.
CreateProductEnd_ClientID(r, out) ==
    /\ pc[r] = "svc"
    /\ req[r].op = "CreateProduct"
    /\ result' = [result EXCEPT ![r] = Returned(out)]
    /\ IF out.err # Nil
       THEN /\ log' = LogInfo(log, r, "failed to create product", [error |-> out.err])
            /\ resp' = [resp EXCEPT ![r] = WriteHeader(@, StatusInternalServerError)]
       ELSE /\ resp' = [resp EXCEPT ![r] =
                Encode(WriteHeader(HeaderSet(HeaderSet(@,
                    "Location", "/products/" \o calls[r][1].arg.ID),
                    "Content-Type", "application/json"),
                    StatusCreated), MarshalProduct(out.val))]
            /\ UNCHANGED log
    /\ pc' = [pc EXCEPT ![r] = "done"]
    /\ UNCHANGED <<handler, req, calls>>

CreateProductEnd(r, out) ==
    /\ pc[r] = "svc"
    /\ req[r].op = "CreateProduct"
    /\ result' = [result EXCEPT ![r] = Returned(out)]
    /\ IF out.err # Nil
       THEN /\ log' = LogInfo(log, r, "failed to create product", [error |-> out.err])
            /\ resp' = [resp EXCEPT ![r] = WriteHeader(@, StatusInternalServerError)]
       ELSE /\ resp' = [resp EXCEPT ![r] =
                Encode(WriteHeader(HeaderSet(HeaderSet(@,
                    "Location", "/products/" \o out.val.ID),
                    "Content-Type", "application/json"),
                    StatusCreated), MarshalProduct(out.val))]
            /\ UNCHANGED log
    /\ pc' = [pc EXCEPT ![r] = "done"]
    /\ UNCHANGED <<handler, req, calls>>

CreateProduct(r) ==
    \/ \E body \in CreateBodies : CreateProductBegin(r, body)
    \/ \E out \in ProductOutcomes : CreateProductEnd(r, out)

----------------------------------------------------------------------------
\* GET /products/{productID}

\* Get that answers 404 for an empty identifier without asking the service.
GetProductBegin_EmptyIsNotFound(r, v) ==
    LET id == idFromRequest(v) IN
    /\ Arrives(r)
    /\ req' = [req EXCEPT ![r] = Request("GetProduct", Full, v, NoBody, NoQuery)]
    /\ IF id = ""
       THEN /\ resp' = [resp EXCEPT ![r] = WriteHeader(@, StatusNotFound)]
            /\ pc' = [pc EXCEPT ![r] = "done"]
            /\ UNCHANGED calls
       ELSE /\ calls' = [calls EXCEPT ![r] = Append(@, Call("GetProduct", id, "none"))]
            /\ pc' = [pc EXCEPT ![r] = "svc"]
            /\ UNCHANGED resp
    /\ UNCHANGED <<handler, result, log>>

GetProductBegin(r, v) ==
    LET id == idFromRequest(v) IN
    /\ Arrives(r)
    /\ req' = [req EXCEPT ![r] = Request("GetProduct", Full, v, NoBody, NoQuery)]
    /\ calls' = [calls EXCEPT ![r] = Append(@, Call("GetProduct", id, "none"))]
    /\ pc' = [pc EXCEPT ![r] = "svc"]
    /\ UNCHANGED <<handler, result, resp, log>>

\* Get that sets the Content-Type after the status has been written.
GetProductEnd_LateContentType(r, out) ==
    LET id == idFromRequest(req[r].vars) IN
    /\ pc[r] = "svc"
    /\ req[r].op = "GetProduct" /\ req[r].layer = Full
    /\ result' = [result EXCEPT ![r] = Returned(out)]
    /\ IF out.err # Nil
       THEN IF ErrorsIs(out.err, ErrNotFound)
            THEN /\ resp' = [resp EXCEPT ![r] = WriteHeader(@, StatusNotFound)]
                 /\ UNCHANGED log
            ELSE /\ log' = LogInfo(log, r, "failed to get product",
                                   [id |-> id, error |-> out.err])
                 /\ resp' = [resp EXCEPT ![r] = WriteHeader(@, StatusInternalServerError)]
       ELSE /\ resp' = [resp EXCEPT ![r] =
                Encode(HeaderSet(WriteHeader(@, StatusOK),
                    "Content-Type", "application/json"), MarshalProduct(out.val))]
            /\ UNCHANGED log
    /\ pc' = [pc EXCEPT ![r] = "done"]
    /\ UNCHANGED <<handler, req, calls>>

GetProductEnd(r, out) ==
    LET id == idFromRequest(req[r].vars) IN
    /\ pc[r] = "svc"
    /\ req[r].op = "GetProduct" /\ req[r].layer = Full
    /\ result' = [result EXCEPT ![r] = Returned(out)]
    /\ IF out.err # Nil
       THEN IF ErrorsIs(out.err, ErrNotFound)
            THEN /\ resp' = [resp EXCEPT ![r] = WriteHeader(@, StatusNotFound)]
                 /\ UNCHANGED log
            ELSE /\ log' = LogInfo(log, r, "failed to get product",
                                   [id |-> id, error |-> out.err])
                 /\ resp' = [resp EXCEPT ![r] = WriteHeader(@, StatusInternalServerError)]
       ELSE /\ resp' = [resp EXCEPT ![r] =
                Encode(WriteHeader(HeaderSet(@, "Content-Type", "application/json"),
                    StatusOK), MarshalProduct(out.val))]
            /\ UNCHANGED log
    /\ pc' = [pc EXCEPT ![r] = "done"]
    /\ UNCHANGED <<handler, req, calls>>

GetProduct(r) ==
    \/ \E v \in RouteVars : GetProductBegin(r, v)
    \/ \E out \in ProductOutcomes : GetProductEnd(r, out)

----------------------------------------------------------------------------
\* GET /products

\* The closure returned by ListProducts(): it decodes with the decoder that
\* was built when the route was registered.
ListProductsBegin(r, query) ==
    LET d == SchemaDecode(handler.decoder, query) IN
    /\ Arrives(r)
    /\ req' = [req EXCEPT ![r] = Request("ListProducts", Full, NoVars, NoBody, query)]
    /\ IF d.err # Nil
       THEN /\ log' = LogInfo(log, r, "failed to decode request", [error |-> d.err])
            /\ resp' = [resp EXCEPT ![r] = WriteHeader(@, StatusBadRequest)]
            /\ pc' = [pc EXCEPT ![r] = "done"]
            /\ UNCHANGED calls
       ELSE /\ calls' = [calls EXCEPT ![r] = Append(@, Call("ListProducts", "", d.val))]
            /\ pc' = [pc EXCEPT ![r] = "svc"]
            /\ UNCHANGED <<resp, log>>
    /\ UNCHANGED <<handler, result>>

\* List that classifies ErrNotFound the way Get does.
ListProductsEnd_NotFoundCase(r, out) ==
    /\ pc[r] = "svc"
    /\ req[r].op = "ListProducts" /\ req[r].layer = Full
    /\ result' = [result EXCEPT ![r] = Returned(out)]
    /\ IF out.err # Nil
       THEN IF ErrorsIs(out.err, ErrNotFound)
            THEN /\ resp' = [resp EXCEPT ![r] = WriteHeader(@, StatusNotFound)]
                 /\ UNCHANGED log
            ELSE /\ log' = LogInfo(log, r, "failed to list products", [error |-> out.err])
                 /\ resp' = [resp EXCEPT ![r] = WriteHeader(@, StatusInternalServerError)]
       ELSE /\ resp' = [resp EXCEPT ![r] =
                Encode(WriteHeader(HeaderSet(@, "Content-Type", "application/json"),
                    StatusOK), MarshalProducts(out.val))]
            /\ UNCHANGED log
    /\ pc' = [pc EXCEPT ![r] = "done"]
    /\ UNCHANGED <<handler, req, calls>>

ListProductsEnd(r, out) ==
    /\ pc[r] = "svc"
    /\ req[r].op = "ListProducts" /\ req[r].layer = Full
    /\ result' = [result EXCEPT ![r] = Returned(out)]
    /\ IF out.err # Nil
       THEN /\ log' = LogInfo(log, r, "failed to list products", [error |-> out.err])
            /\ resp' = [resp EXCEPT ![r] = WriteHeader(@, StatusInternalServerError)]
       ELSE /\ resp' = [resp EXCEPT ![r] =
                Encode(WriteHeader(HeaderSet(@, "Content-Type", "application/json"),
                    StatusOK), MarshalProducts(out.val))]
            /\ UNCHANGED log
    /\ pc' = [pc EXCEPT ![r] = "done"]
    /\ UNCHANGED <<handler, req, calls>>

ListProducts(r) ==
    \/ \E query \in Queries : ListProductsBegin(r, query)
    \/ \E out \in ListOutcomes : ListProductsEnd(r, out)

----------------------------------------------------------------------------
\* PATCH /products/{productID}

UpdateProductBegin(r, v, body) ==
    LET id == idFromRequest(v)
        d == JsonDecodeUpdate(body)
    IN
    /\ Arrives(r)
    /\ req' = [req EXCEPT ![r] = Request("UpdateProduct", Full, v, body, NoQuery)]
    /\ IF d.err # Nil
       THEN /\ resp' = [resp EXCEPT ![r] = WriteHeader(@, StatusBadRequest)]
            /\ pc' = [pc EXCEPT ![r] = "done"]
            /\ UNCHANGED <<calls, log>>
       ELSE /\ calls' = [calls EXCEPT ![r] = Append(@, Call("UpdateProduct", id, d.val))]
            /\ pc' = [pc EXCEPT ![r] = "svc"]
            /\ UNCHANGED <<resp, log>>
    /\ UNCHANGED <<handler, result>>

\* Update that calls the service a second time after an unexpected failure.
UpdateProductEnd_Retry(r, out) ==
    LET id == idFromRequest(req[r].vars) IN
    /\ pc[r] = "svc"
    /\ req[r].op = "UpdateProduct"
    /\ result' = [result EXCEPT ![r] = Returned(out)]
    /\ IF out.err # Nil
       THEN IF ErrorsIs(out.err, ErrNotFound)
            THEN /\ resp' = [resp EXCEPT ![r] = WriteHeader(@, StatusNotFound)]
                 /\ UNCHANGED <<log, calls>>
            ELSE /\ calls' = [calls EXCEPT ![r] = Append(@, calls[r][1])]
                 /\ log' = LogInfo(log, r, "failed to update product",
                                   [id |-> id, error |-> out.err])
                 /\ resp' = [resp EXCEPT ![r] = WriteHeader(@, StatusInternalServerError)]
       ELSE /\ resp' = [resp EXCEPT ![r] =
                Encode(WriteHeader(HeaderSet(@, "Content-Type", "application/json"),
                    StatusOK), MarshalProduct(out.val))]
            /\ UNCHANGED <<log, calls>>
    /\ pc' = [pc EXCEPT ![r] = "done"]
    /\ UNCHANGED <<handler, req>>

UpdateProductEnd(r, out) ==
    LET id == idFromRequest(req[r].vars) IN
    /\ pc[r] = "svc"
    /\ req[r].op = "UpdateProduct"
    /\ result' = [result EXCEPT ![r] = Returned(out)]
    /\ IF out.err # Nil
       THEN IF ErrorsIs(out.err, ErrNotFound)
            THEN /\ resp' = [resp EXCEPT ![r] = WriteHeader(@, StatusNotFound)]
                 /\ UNCHANGED log
            ELSE /\ log' = LogInfo(log, r, "failed to update product",
                                   [id |-> id, error |-> out.err])
                 /\ resp' = [resp EXCEPT ![r] = WriteHeader(@, StatusInternalServerError)]
       ELSE /\ resp' = [resp EXCEPT ![r] =
                Encode(WriteHeader(HeaderSet(@, "Content-Type", "application/json"),
                    StatusOK), MarshalProduct(out.val))]
            /\ UNCHANGED log
    /\ pc' = [pc EXCEPT ![r] = "done"]
    /\ UNCHANGED <<handler, req, calls>>

UpdateProduct(r) ==
    \/ \E v \in RouteVars, body \in UpdateBodies : UpdateProductBegin(r, v, body)
    \/ \E out \in ProductOutcomes : UpdateProductEnd(r, out)

----------------------------------------------------------------------------
\* DELETE /products/{productID}

DeleteProductBegin(r, v) ==
    LET id == idFromRequest(v) IN
    /\ Arrives(r)
    /\ req' = [req EXCEPT ![r] = Request("DeleteProduct", Full, v, NoBody, NoQuery)]
    /\ calls' = [calls EXCEPT ![r] = Append(@, Call("DeleteProduct", id, "none"))]
    /\ pc' = [pc EXCEPT ![r] = "svc"]
    /\ UNCHANGED <<handler, result, resp, log>>

\* Delete that answers like the other handlers: 200 and the deleted id as body.
DeleteProductEnd_OKWithBody(r, out) ==
    LET id == idFromRequest(req[r].vars) IN
    /\ pc[r] = "svc"
    /\ req[r].op = "DeleteProduct"
    /\ result' = [result EXCEPT ![r] = Returned(out)]
    /\ IF out.err # Nil
       THEN IF ErrorsIs(out.err, ErrNotFound)
            THEN /\ resp' = [resp EXCEPT ![r] = WriteHeader(@, StatusNotFound)]
                 /\ UNCHANGED log
            ELSE /\ log' = LogInfo(log, r, "failed to delete product",
                                   [id |-> id, error |-> out.err])
                 /\ resp' = [resp EXCEPT ![r] = WriteHeader(@, StatusInternalServerError)]
       ELSE /\ resp' = [resp EXCEPT ![r] =
                Encode(WriteHeader(@, StatusOK), JObj([id |-> JStr(id)]))]
            /\ UNCHANGED log
    /\ pc' = [pc EXCEPT ![r] = "done"]
    /\ UNCHANGED <<handler, req, calls>>

DeleteProductEnd(r, out) ==
    LET id == idFromRequest(req[r].vars) IN
    /\ pc[r] = "svc"
    /\ req[r].op = "DeleteProduct"
    /\ result' = [result EXCEPT ![r] = Returned(out)]
    /\ IF out.err # Nil
       THEN IF ErrorsIs(out.err, ErrNotFound)
            THEN /\ resp' = [resp EXCEPT ![r] = WriteHeader(@, StatusNotFound)]
                 /\ UNCHANGED log
            ELSE /\ log' = LogInfo(log, r, "failed to delete product",
                                   [id |-> id, error |-> out.err])
                 /\ resp' = [resp EXCEPT ![r] = WriteHeader(@, StatusInternalServerError)]
       ELSE /\ resp' = [resp EXCEPT ![r] = WriteHeader(@, StatusNoContent)]
            /\ UNCHANGED log
    /\ pc' = [pc EXCEPT ![r] = "done"]
    /\ UNCHANGED <<handler, req, calls>>

DeleteProduct(r) ==
    \/ \E v \in RouteVars : DeleteProductBegin(r, v)
    \/ \E out \in DeleteOutcomes : DeleteProductEnd(r, out)

----------------------------------------------------------------------------
\* The two-operation layer: GET /products/{productID} and GET /products.

LegacyGetProductBegin(r, v) ==
    LET id == idFromRequest(v) IN
    /\ Arrives(r)
    /\ req' = [req EXCEPT ![r] = Request("GetProduct", Legacy, v, NoBody, NoQuery)]
    /\ calls' = [calls EXCEPT ![r] = Append(@, Call("GetProduct", id, "none"))]
    /\ pc' = [pc EXCEPT ![r] = "svc"]
    /\ UNCHANGED <<handler, result, resp, log>>

LegacyGetProductEnd(r, out) ==
    LET id == idFromRequest(req[r].vars) IN
    /\ pc[r] = "svc"
    /\ req[r].op = "GetProduct" /\ req[r].layer = Legacy
    /\ result' = [result EXCEPT ![r] = Returned(out)]
    /\ IF out.err # Nil
       THEN IF ErrorsIs(out.err, ErrNotFound)
            THEN /\ resp' = [resp EXCEPT ![r] = WriteHeader(@, StatusNotFound)]
                 /\ UNCHANGED log
            ELSE /\ log' = LogInfo(log, r, "failed to get product",
                                   [id |-> id, error |-> out.err])
                 /\ resp' = [resp EXCEPT ![r] = WriteHeader(@, StatusInternalServerError)]
       ELSE /\ resp' = [resp EXCEPT ![r] =
                Encode(WriteHeader(HeaderSet(@, "Content-Type", "application/json"),
                    StatusOK), MarshalEmptyProduct(out.val))]
            /\ UNCHANGED log
    /\ pc' = [pc EXCEPT ![r] = "done"]
    /\ UNCHANGED <<handler, req, calls>>

LegacyGetProduct(r) ==
    \/ \E v \in RouteVars : LegacyGetProductBegin(r, v)
    \/ \E out \in EmptyProductOutcomes : LegacyGetProductEnd(r, out)

\* This ListProducts builds its own decoder on every request.
LegacyListProductsBegin(r, query) ==
    LET decoder == IgnoreUnknownKeys(NewDecoder, TRUE)
        d == SchemaDecode(decoder, query)
    IN
    /\ Arrives(r)
    /\ req' = [req EXCEPT ![r] = Request("ListProducts", Legacy, NoVars, NoBody, query)]
    /\ IF d.err # Nil
       THEN /\ log' = LogInfo(log, r, "failed to decode request", [error |-> d.err])
            /\ resp' = [resp EXCEPT ![r] = WriteHeader(@, StatusBadRequest)]
            /\ pc' = [pc EXCEPT ![r] = "done"]
            /\ UNCHANGED calls
       ELSE /\ calls' = [calls EXCEPT ![r] = Append(@, Call("ListProducts", "", d.val))]
            /\ pc' = [pc EXCEPT ![r] = "svc"]
            /\ UNCHANGED <<resp, log>>
    /\ UNCHANGED <<handler, result>>

LegacyListProductsEnd(r, out) ==
    /\ pc[r] = "svc"
    /\ req[r].op = "ListProducts" /\ req[r].layer = Legacy
    /\ result' = [result EXCEPT ![r] = Returned(out)]
    /\ IF out.err # Nil
       THEN /\ log' = LogInfo(log, r, "failed to list products", [error |-> out.err])
            /\ resp' = [resp EXCEPT ![r] = WriteHeader(@, StatusInternalServerError)]
       ELSE /\ resp' = [resp EXCEPT ![r] =
                Encode(WriteHeader(HeaderSet(@, "Content-Type", "application/json"),
                    StatusOK), MarshalEmptyProducts(out.val))]
            /\ UNCHANGED log
    /\ pc' = [pc EXCEPT ![r] = "done"]
    /\ UNCHANGED <<handler, req, calls>>

LegacyListProducts(r) ==
    \/ \E query \in Queries : LegacyListProductsBegin(r, query)
    \/ \E out \in EmptyListOutcomes : LegacyListProductsEnd(r, out)

----------------------------------------------------------------------------
Next ==
    \E r \in Reqs :
        \/ CreateProduct(r)
        \/ GetProduct(r)
        \/ ListProducts(r)
        \/ UpdateProduct(r)
        \/ DeleteProduct(r)
        \/ LegacyGetProduct(r)
        \/ LegacyListProducts(r)

Spec == Init /\ [][Next]_vars

TypeOK ==
    /\ pc \in [Reqs -> {"idle", "svc", "done"}]
    /\ \A r \in Reqs : resp[r].status \in {0, 200, 201, 204, 400, 404, 500}

----------------------------------------------------------------------------
\* Vocabulary of the properties.  These are stated over the observable
\* record of a request (what it received, what the service was asked and
\* answered, what was written and logged), not over the handlers' helpers.

Done(r) == pc[r] = "done"

Op(r) == req[r].op

ByID == {"GetProduct", "UpdateProduct", "DeleteProduct"}

\* Log records emitted while serving request r.
LogsOf(r) == SelectSeq(log, LAMBDA e : e.req = r)

\* The failure is ErrNotFound: the sentinel occurs somewhere in the chain.
IsNotFound(err) == \E i \in 1..Len(err) : err[i] = ErrNotFound

\* The error, if any, of decoding the input of request r.
DecodeError(r) ==
    CASE Op(r) = "CreateProduct" -> JsonDecodeProduct(req[r].body).err
      [] Op(r) = "UpdateProduct" -> JsonDecodeUpdate(req[r].body).err
      [] Op(r) = "ListProducts"  -> SchemaDecode(handler.decoder, req[r].query).err
      [] OTHER                   -> Nil

DecodeFailed(r) == Op(r) # "none" /\ DecodeError(r) # Nil

ServiceFailed(r) == result[r].returned /\ result[r].err # Nil

ServiceSucceeded(r) == result[r].returned /\ result[r].err = Nil

\* The path identifier of request r.
PathID(r) == IF "productID" \in DOMAIN req[r].vars THEN req[r].vars["productID"] ELSE ""

FailureMessage(op) ==
    CASE op = "GetProduct"    -> "failed to get product"
      [] op = "UpdateProduct" -> "failed to update product"
      [] op = "DeleteProduct" -> "failed to delete product"
      [] op = "CreateProduct" -> "failed to create product"
      [] OTHER                -> "failed to list products"

\* The body a successful request is expected to carry.
ExpectedBody(r) ==
    CASE Op(r) = "DeleteProduct" -> <<>>
      [] Op(r) = "ListProducts" /\ req[r].layer = Full ->
            <<MarshalProducts(result[r].val)>>
      [] Op(r) = "ListProducts" /\ req[r].layer = Legacy ->
            <<MarshalEmptyProducts(result[r].val)>>
      [] Op(r) = "GetProduct" /\ req[r].layer = Legacy -> <<JObj(EmptyProduct)>>
      [] OTHER -> <<MarshalProduct(result[r].val)>>

----------------------------------------------------------------------------
\* C1: a Create or Update request whose body fails JSON decoding is answered
\* 400 and the service is never invoked for it, whatever the path identifier.
C1_MalformedBodyIs400NoCall ==
    \A r \in Reqs :
        (Op(r) \in {"CreateProduct", "UpdateProduct"} /\ DecodeFailed(r)) =>
            /\ calls[r] = <<>>
            /\ ~result[r].returned
            /\ Done(r)
            /\ resp[r].status = StatusBadRequest

C1_Witness ==
    \E r1, r2 \in Reqs :
        /\ Op(r1) = "CreateProduct" /\ DecodeFailed(r1) /\ resp[r1].status = 400
        /\ Op(r2) = "UpdateProduct" /\ DecodeFailed(r2) /\ resp[r2].status = 400
        /\ PathID(r2) = "42"

\* C2: on Get, Update and Delete, a service failure that is ErrNotFound
\* (also when wrapped) is answered exactly 404 and logs nothing.
C2_NotFoundIs404Unlogged ==
    \A r \in Reqs :
        (Done(r) /\ Op(r) \in ByID /\ ServiceFailed(r) /\ IsNotFound(result[r].err)) =>
            /\ resp[r].status = StatusNotFound
            /\ LogsOf(r) = <<>>

C2_Witness ==
    \E r \in Reqs :
        /\ Done(r) /\ Op(r) = "UpdateProduct"
        /\ result[r].returned /\ result[r].err = <<"wrap", "ErrNotFound">>
        /\ resp[r].status = 404

\* C3: on Get, Update and Delete, a service failure that is not ErrNotFound
\* is answered 500 with exactly one log record, which carries the operation
\* name, the request's identifier and the error.
C3_OtherFailureIs500LoggedOnce ==
    \A r \in Reqs :
        (Done(r) /\ Op(r) \in ByID /\ ServiceFailed(r) /\ ~IsNotFound(result[r].err)) =>
            /\ resp[r].status = StatusInternalServerError
            /\ Len(LogsOf(r)) = 1
            /\ LogsOf(r)[1].msg = FailureMessage(Op(r))
            /\ LogsOf(r)[1].attrs = [id |-> PathID(r), error |-> result[r].err]

C3_Witness ==
    \E r \in Reqs :
        /\ Done(r) /\ Op(r) = "DeleteProduct" /\ PathID(r) = "42"
        /\ result[r].returned /\ result[r].err = <<"lookalike">>
        /\ resp[r].status = 500
        /\ Len(LogsOf(r)) = 1

\* C4: every decode failure (query on List, body on Create and Update) is
\* answered 400 and logged once by the handler, without a service call.
C4_EveryDecodeFailureLogged ==
    \A r \in Reqs :
        (Done(r) /\ DecodeFailed(r)) =>
            /\ resp[r].status = StatusBadRequest
            /\ Len(LogsOf(r)) = 1
            /\ calls[r] = <<>>

\* C5: on Create and List, any service failure, ErrNotFound included, is
\* answered 500 with exactly one log record; these two never answer 404.
C5_CreateListFailureIs500 ==
    \A r \in Reqs :
        (Done(r) /\ Op(r) \in {"CreateProduct", "ListProducts"}) =>
            /\ resp[r].status # StatusNotFound
            /\ ServiceFailed(r) =>
                /\ resp[r].status = StatusInternalServerError
                /\ Len(LogsOf(r)) = 1
                /\ LogsOf(r)[1].msg = FailureMessage(Op(r))

C5_Witness ==
    \E r1, r2 \in Reqs :
        /\ Done(r1) /\ Op(r1) = "CreateProduct"
        /\ result[r1].returned /\ result[r1].err = <<"ErrNotFound">>
        /\ resp[r1].status = 500
        /\ Done(r2) /\ Op(r2) = "ListProducts" /\ req[r2].layer = Full
        /\ result[r2].returned /\ result[r2].err = <<"wrap", "ErrNotFound">>
        /\ resp[r2].status = 500

\* C6: a successful Create is answered 201 with Location "/products/" plus
\* the identifier of the entity the service returned (not the client's),
\* committed with the status line, and with that entity as the body.
C6_CreateSuccess ==
    \A r \in Reqs :
        (Done(r) /\ Op(r) = "CreateProduct" /\ ServiceSucceeded(r)) =>
            /\ resp[r].status = StatusCreated
            /\ resp[r].sent["Location"] = "/products/" \o result[r].val.ID
            /\ resp[r].body = <<MarshalProduct(result[r].val)>>
            /\ result[r].val = P42 =>
                /\ resp[r].sent["Location"] = "/products/42"
                /\ resp[r].body = <<JObj([id |-> JStr("42"), name |-> JStr("X")])>>

C6_Witness ==
    \E r \in Reqs :
        /\ Done(r) /\ Op(r) = "CreateProduct"
        /\ calls[r] # <<>> /\ calls[r][1].arg.ID = "7"
        /\ ServiceSucceeded(r) /\ result[r].val = P42
        /\ resp[r].status = 201

\* C7: a successful Delete is answered 204 with no body bytes; a successful
\* Get, List or Update is answered 200 followed by the service's result.
C7_SuccessStatusAndBody ==
    \A r \in Reqs :
        (Done(r) /\ ServiceSucceeded(r)) =>
            /\ Op(r) = "DeleteProduct" =>
                resp[r].status = StatusNoContent /\ resp[r].body = <<>>
            /\ Op(r) \in {"GetProduct", "ListProducts", "UpdateProduct"} =>
                resp[r].status = StatusOK /\ resp[r].body = ExpectedBody(r)

C7_Witness ==
    \E r1, r2 \in Reqs :
        /\ Done(r1) /\ Op(r1) = "DeleteProduct" /\ ServiceSucceeded(r1)
        /\ resp[r1].status = 204
        /\ Done(r2) /\ Op(r2) = "UpdateProduct" /\ ServiceSucceeded(r2)
        /\ resp[r2].status = 200 /\ resp[r2].body # <<>>

\* No Content-Type reaches the client and no body is written.
Bare(w) ==
    /\ w.sent["Content-Type"] = ""
    /\ w.header["Content-Type"] = ""
    /\ w.body = <<>>

\* C8 as stated: every success of the five operations commits Content-Type:
\* application/json with its status; every failure (400, 404, 500) has no
\* Content-Type and no body.
C8_ContentTypeOnEverySuccess ==
    \A r \in Reqs :
        Done(r) =>
            IF ServiceSucceeded(r)
            THEN resp[r].sent["Content-Type"] = "application/json"
            ELSE Bare(resp[r])

\* C8, amended: every success of Create, Get, List and Update commits
\* Content-Type: application/json with its status; a successful Delete and
\* every failure (400, 404, 500) have no Content-Type and no body.
C8_ContentTypeOnSuccessWithBody ==
    \A r \in Reqs :
        Done(r) =>
            IF ServiceSucceeded(r) /\ Op(r) # "DeleteProduct"
            THEN resp[r].sent["Content-Type"] = "application/json"
            ELSE Bare(resp[r])

C8_Witness ==
    \E r1, r2 \in Reqs :
        /\ Done(r1) /\ Op(r1) = "DeleteProduct" /\ ServiceSucceeded(r1)
        /\ Bare(resp[r1])
        /\ Done(r2) /\ Op(r2) = "GetProduct" /\ req[r2].layer = Full
        /\ ServiceSucceeded(r2)
        /\ resp[r2].sent["Content-Type"] = "application/json"

\* C9 as stated: with an empty path identifier Get, Update and Delete answer
\* 404, whatever the service would return.
C9_EmptyIDIsAlways404 ==
    \A r \in Reqs :
        (Done(r) /\ Op(r) \in ByID /\ PathID(r) = "") =>
            resp[r].status = StatusNotFound

\* C9, amended: with an empty path identifier Get, Update and Delete hand
\* the empty identifier to the service like any other and answer by its
\* outcome: 404 exactly when the failure is ErrNotFound, 500 for any other
\* failure, 200 (204 for Delete) on success; the only 400 is Update's
\* body-decoding failure, which the identifier does not influence.
C9_EmptyIDGoesToService ==
    \A r \in Reqs :
        (Done(r) /\ Op(r) \in ByID /\ PathID(r) = "") =>
            IF DecodeFailed(r)
            THEN Op(r) = "UpdateProduct" /\ resp[r].status = StatusBadRequest
            ELSE /\ Len(calls[r]) = 1
                 /\ calls[r][1].method = Op(r)
                 /\ calls[r][1].id = ""
                 /\ result[r].returned
                 /\ resp[r].status =
                        CASE result[r].err = Nil /\ Op(r) = "DeleteProduct" -> StatusNoContent
                          [] result[r].err = Nil /\ Op(r) # "DeleteProduct" -> StatusOK
                          [] result[r].err # Nil /\ IsNotFound(result[r].err) -> StatusNotFound
                          [] OTHER -> StatusInternalServerError

C9_Witness ==
    \E r1, r2 \in Reqs :
        /\ Done(r1) /\ Op(r1) = "GetProduct" /\ req[r1].layer = Full
        /\ PathID(r1) = "" /\ ServiceSucceeded(r1) /\ resp[r1].status = 200
        /\ Done(r2) /\ Op(r2) = "DeleteProduct" /\ PathID(r2) = ""
        /\ ServiceFailed(r2) /\ resp[r2].status = 500

\* The status the mapping policy gives a finished request, from its own
\* operation, decode result and service outcome.
ExpectedStatus(r) ==
    CASE DecodeFailed(r) -> StatusBadRequest
      [] ~DecodeFailed(r) /\ ServiceSucceeded(r) ->
            (CASE Op(r) = "CreateProduct" -> StatusCreated
               [] Op(r) = "DeleteProduct" -> StatusNoContent
               [] OTHER -> StatusOK)
      [] OTHER ->
            IF Op(r) \in ByID /\ IsNotFound(result[r].err)
            THEN StatusNotFound ELSE StatusInternalServerError

\* What request r was given: its own input and its own service outcome.
Given(r) == <<req[r], result[r]>>

\* What request r produced, the ordering of the shared log aside.
Produced(r) ==
    <<resp[r], calls[r], [i \in 1..Len(LogsOf(r)) |-> [LogsOf(r)[i] EXCEPT !.req = 0]]>>

\* C10: under any interleaving each request makes at most one service call
\* and writes exactly one status; the status is the one the policy gives for
\* the request's own operation, decode result and service outcome; two
\* requests given the same produce the same, whatever else is in flight;
\* an unfinished request has written nothing; and the handler's shared
\* values stay as NewHandler built them.
C10_RequestsAreIndependent ==
    /\ handler = [service |-> "service", logger |-> "logger",
                  decoder |-> [ignoreUnknownKeys |-> TRUE]]
    /\ \A r \in Reqs :
        /\ Len(calls[r]) <= 1
        /\ ~Done(r) => resp[r] = NewWriter /\ LogsOf(r) = <<>>
        /\ Done(r) =>
            /\ resp[r].writeHeaderCalls = 1
            /\ resp[r].wroteHeader
            /\ resp[r].status = ExpectedStatus(r)
            /\ Len(LogsOf(r)) <= 1
    /\ \A r1, r2 \in Reqs :
        (Done(r1) /\ Done(r2) /\ Given(r1) = Given(r2)) => Produced(r1) = Produced(r2)

\* Two List requests of the closure sharing one decoder overlap: the second
\* arrived and was answered while the first still waits for the service.
C10_Witness ==
    \E r1, r2 \in Reqs :
        /\ r1 < r2
        /\ Op(r1) = "ListProducts" /\ req[r1].layer = Full /\ pc[r1] = "svc"
        /\ Op(r2) = "ListProducts" /\ req[r2].layer = Full /\ Done(r2)
        /\ resp[r2].status = 500

====
